---- MODULE Spec2Model ----
(***************************************************************************)
(* TONWalletTracker (src/ton_track.py): the watermark (last_lt), the       *)
(* seen-set (processed_hashes) and the monitoring loop of start_monitoring *)
(* (startup check, websocket event mode, polling mode).                    *)
(*                                                                         *)
(* A transaction record is [hash, lt, printable]:                          *)
(*   hash      transaction_id.hash, None when the record carries none      *)
(*   lt        transaction_id.lt,   None when the record carries none      *)
(*   printable FALSE when format_transaction raises on the record (a       *)
(*             utime, value or total_fees that int()/fromtimestamp()       *)
(*             rejects)                                                    *)
(* The history source is modelled twice.  Under Spec a fetch answers with  *)
(* any page of records (any order, repeated hashes, malformed records).    *)
(* Under LedgerSpec the account has an append-only history with strictly   *)
(* increasing logical times and a fetch answers with its newest entries,   *)
(* newest first.  Under both a fetch may also fail.                        *)
(***************************************************************************)
EXTENDS Integers, Sequences, FiniteSets, TLC

\* Bounds of the model.
MaxLT == 2
MaxPage == 2

\* Program constants.
max_retries == 3
LimitSingle == 5
LimitSeed == 1
LimitPoll == 20
SleepPoll == 5
SleepError == 10

\* Python's None: an absent hash, an absent lt, an unset watermark.
None == 0

VARIABLES
    last_lt,           \* self.last_lt: None or a logical time
    processed_hashes,  \* self.processed_hashes
    retry_count,       \* websocket_monitor's local retry_count (0 outside it)
    pc,                \* where start_monitoring stands
    slept,             \* seconds the poll loop is asleep for (0: not asleep)
    sink,              \* the records printed as new transactions, in order
    cycle,             \* the fetch pass the latest step made (NoPass if none)
    api,               \* "any": arbitrary pages; "ledger": pages of the ledger
    ledger,            \* the account's history, oldest first (api = "ledger")
    backlog            \* how many ledger entries existed when the run started

vars == <<last_lt, processed_hashes, retry_count, pc, slept, sink, cycle,
          api, ledger, backlog>>

Min(a, b) == IF a < b THEN a ELSE b

Tx(h, l, p) == [hash |-> h, lt |-> l, printable |-> p]

\* Well-formed transactions: hash h has logical time h, except that the last
\* hash shares the highest logical time (a logical-time collision).
MaxHash == MaxLT + 1
LtOf(h) == Min(h, MaxLT)
WellFormed == {Tx(h, LtOf(h), TRUE) : h \in 1..MaxHash}

\* Records a page may also carry: one without a hash, one without an lt, and
\* one that format_transaction cannot print.
NoHashTx == Tx(None, 1, TRUE)
NoLtTx == Tx(MaxHash + 1, None, TRUE)
UnprintableTx == Tx(MaxHash + 2, Min(2, MaxLT), FALSE)
Records == WellFormed \cup {NoHashTx, NoLtTx, UnprintableTx}

\* Every page of at most MaxPage records, and those a limit allows.
AllPages == UNION {[1..k -> Records] : k \in 0..MaxPage}
Pages(limit) == {p \in AllPages : Len(p) <= limit}

\* The newest n entries of the ledger, newest first.
Newest(n) ==
    LET k == Min(n, Len(ledger))
    IN  [i \in 1..k |-> ledger[Len(ledger) + 1 - i]]

\* get_transactions_history(limit).  An answer with ok = true yields its
\* result; a RequestException or an answer with ok = false is a failed fetch
\* and yields the empty page; any other exception (data is not a JSON
\* object, a body that is not JSON under a requests release whose
\* JSONDecodeError is no RequestException) leaves the function: raised.
Fetched(p) == [raised |-> FALSE, failed |-> FALSE, page |-> p]
FetchFailed == [raised |-> FALSE, failed |-> TRUE, page |-> <<>>]
FetchRaised == [raised |-> TRUE, failed |-> FALSE, page |-> <<>>]
get_transactions_history(limit) ==
    {FetchRaised, FetchFailed} \cup
    IF api = "any"
    THEN {Fetched(p) : p \in Pages(limit)}
    ELSE {Fetched(Newest(limit))}

----------------------------------------------------------------------------
\* The filter with >= for >: a record at the watermark counts as new.
IsNewAtOrAbove(tx, seen, wm) ==
    /\ tx.hash # None
    /\ tx.hash \notin seen
    /\ (wm = None \/ tx.lt >= wm)

\* The filter without its seen-set conjunct: only the watermark decides.
IsNewByWatermark(tx, seen, wm) ==
    /\ tx.hash # None
    /\ (wm = None \/ tx.lt > wm)

\* The filter of lines 117-118 / 216-217 once int(tx_lt) can be evaluated.
IsNew(tx, seen, wm) ==
    /\ tx.hash # None
    /\ tx.hash \notin seen
    /\ (wm = None \/ tx.lt > wm)

\* int(tx_lt) is evaluated, and raises TypeError on None, exactly when the
\* first two conjuncts hold and the watermark is set.
FilterRaises(tx, seen, wm) ==
    /\ tx.hash # None
    /\ tx.hash \notin seen
    /\ wm # None
    /\ tx.lt = None

\* Admit without line 120 / 219: the hash is not added to the seen-set.
AdmitUnmarked(acc, tx) ==
    [acc EXCEPT !.new = Append(@, tx)]

\* What classifying one more record does to the new list and the seen-set.
Admit(acc, tx) ==
    [acc EXCEPT !.new = Append(@, tx), !.seen = @ \cup {tx.hash}]

\* The classification loop (lines 111-120 / 211-219) from index i on: the
\* watermark is read, never written; the seen-set grows as records are
\* admitted; an exception leaves the loop with what was added so far.
RECURSIVE Classify(_, _, _, _)
Classify(page, i, acc, wm) ==
    IF i > Len(page) THEN acc
    ELSE IF FilterRaises(page[i], acc.seen, wm) THEN [acc EXCEPT !.err = TRUE]
    ELSE IF IsNew(page[i], acc.seen, wm)
         THEN Classify(page, i + 1, Admit(acc, page[i]), wm)
         ELSE Classify(page, i + 1, acc, wm)

\* The sort key int(x.get("transaction_id", {}).get("lt", 0)).
SortKey(tx) == IF tx.lt = None THEN 0 ELSE tx.lt

\* list.sort is stable: a record goes after every record whose key is not
\* greater than its own.
InsertByLt(sorted, tx) ==
    LET k == Cardinality({j \in 1..Len(sorted) : SortKey(sorted[j]) <= SortKey(tx)})
    IN  SubSeq(sorted, 1, k) \o <<tx>> \o SubSeq(sorted, k + 1, Len(sorted))

RECURSIVE SortedFrom(_, _)
SortedFrom(s, n) ==
    IF n = 0 THEN <<>> ELSE InsertByLt(SortedFrom(s, n - 1), s[n])

\* Lines 124 / 222 left out: the page order is kept.
Unsorted(s) == s

\* new_transactions.sort(key=...) (lines 124 / 222).
SortByLt(s) == SortedFrom(s, Len(s))

\* Lines 131-133 / 228-230: the watermark after printing tx.
Advance(wm, tx) ==
    IF tx.lt # None /\ (wm = None \/ tx.lt > wm) THEN tx.lt ELSE wm

\* The printing loop (lines 126-133 / 224-230) from index i on: a record that
\* format_transaction rejects ends the loop with an exception.
RECURSIVE Deliver(_, _, _)
Deliver(batch, i, st) ==
    IF i > Len(batch) THEN st
    ELSE IF ~batch[i].printable THEN [st EXCEPT !.err = TRUE]
    ELSE Deliver(batch, i + 1,
                 [st EXCEPT !.out = Append(@, batch[i]),
                            !.last_lt = Advance(@, batch[i])])

\* One fetch-and-filter pass (the try body of check_single_update, and of one
\* iteration of check_new_transactions) on fetch result r: what it prints,
\* the watermark and seen-set it leaves, new_transactions as classified, and
\* whether it ended in the except branch.
FetchAndFilter(r, wm, seen) ==
    IF r.raised
    THEN [out |-> <<>>, last_lt |-> wm, seen |-> seen, new |-> <<>>, err |-> TRUE]
    ELSE LET c == Classify(r.page, 1, [new |-> <<>>, seen |-> seen, err |-> FALSE], wm)
         IN  IF c.err
             THEN [out |-> <<>>, last_lt |-> wm, seen |-> c.seen, new |-> c.new,
                   err |-> TRUE]
             ELSE LET d == Deliver(SortByLt(c.new), 1,
                                   [out |-> <<>>, last_lt |-> wm, err |-> FALSE])
                  IN  [out |-> d.out, last_lt |-> d.last_lt, seen |-> c.seen,
                       new |-> c.new, err |-> d.err]

\* The records of a page that are new by the specification's words: the hash
\* is not in the seen-set and the logical time exceeds the watermark (any
\* logical time when the watermark is unset).
Offered(page, wm, seen) ==
    {tx \in {page[i] : i \in 1..Len(page)} :
        /\ tx.hash # None
        /\ tx.hash \notin seen
        /\ (wm = None \/ (tx.lt # None /\ tx.lt > wm))}

\* The hashes a page repeats: already in the seen-set when it was fetched, or
\* met earlier in the same page.
Repeated(page, seen) ==
    {page[i].hash : i \in {j \in 1..Len(page) :
        /\ page[j].hash # None
        /\ \/ page[j].hash \in seen
           \/ \E k \in 1..(j - 1) : page[k].hash = page[j].hash}}

\* A record that lacks its hash or its logical time.
Malformed(tx) == tx.hash = None \/ tx.lt = None

\* A page that brings no hash the seen-set does not hold already (the empty
\* page among them).
AllSeen(page, seen) ==
    \A i \in 1..Len(page) : page[i].hash # None => page[i].hash \in seen

\* The record kept of a pass: the operation, whether the fetch raised or
\* failed, the watermark it started from, the page's new records by the
\* specification's words, the hashes the page repeats, whether the page held
\* a malformed record, whether it held seen hashes only, new_transactions as
\* classified (page order), what was printed and whether the pass ended in an
\* except branch.
Pass(op, r, res) ==
    [op |-> op, raised |-> r.raised, failed |-> r.failed, last_lt |-> last_lt,
     offered |-> Offered(r.page, last_lt, processed_hashes),
     repeated |-> Repeated(r.page, processed_hashes),
     malformed |-> \E i \in 1..Len(r.page) : Malformed(r.page[i]),
     all_seen |-> AllSeen(r.page, processed_hashes),
     new |-> res.new, out |-> res.out, err |-> res.err]

NoPass ==
    [op |-> "none", raised |-> FALSE, failed |-> FALSE, last_lt |-> None,
     offered |-> {}, repeated |-> {}, malformed |-> FALSE, all_seen |-> TRUE,
     new |-> <<>>, out |-> <<>>, err |-> FALSE]

\* The state change of one pass.
ApplyPass(op, r) ==
    LET res == FetchAndFilter(r, last_lt, processed_hashes)
    IN  /\ last_lt' = res.last_lt
        /\ processed_hashes' = res.seen
        /\ sink' = sink \o res.out
        /\ cycle' = Pass(op, r, res)

----------------------------------------------------------------------------
\* The awaits of websocket_monitor, and the positions of check_new_transactions.
EventAwaits == {"ws_connect", "ws_backoff", "ws_listen"}
EventPcs == EventAwaits \cup {"ws_checked"}
PollPcs == {"poll_seed", "poll_loop", "poll_sleep"}

InitCommon ==
    /\ last_lt = None
    /\ processed_hashes = {}
    /\ retry_count = 0
    /\ pc = "startup"
    /\ slept = 0
    /\ sink = <<>>
    /\ cycle = NoPass

Init ==
    /\ InitCommon
    /\ api = "any"
    /\ ledger = <<>>
    /\ backlog = 0

\* The ledger holds well-formed transactions with strictly increasing lt.
LedgerInit ==
    /\ InitCommon
    /\ api = "ledger"
    /\ backlog \in 0..MaxLT
    /\ ledger = [i \in 1..backlog |-> Tx(i, i, TRUE)]

\* start_monitoring, line 243: the startup check_single_update, whose own
\* try/except swallows every exception; websocket_monitor starts next.
StartupCheck ==
    /\ pc = "startup"
    /\ \E r \in get_transactions_history(LimitSingle) : ApplyPass("single", r)
    /\ pc' = "ws_connect"
    /\ UNCHANGED <<retry_count, slept, api, ledger, backlog>>

\* Lines 196-204: the except branch of websocket_monitor.
WsFailure ==
    /\ retry_count' = retry_count + 1
    /\ pc' = IF retry_count + 1 < max_retries THEN "ws_backoff" ELSE "poll_seed"

\* Lines 164-174: a connection attempt that succeeds and subscribes.
WsConnectOk ==
    /\ pc = "ws_connect"
    /\ pc' = "ws_listen"
    /\ cycle' = NoPass
    /\ UNCHANGED <<last_lt, processed_hashes, retry_count, slept, sink, api,
                   ledger, backlog>>

\* Lines 164-174, 196-204: a connection attempt (or the subscription send)
\* that raises.
WsConnectFail ==
    /\ pc = "ws_connect"
    /\ WsFailure
    /\ cycle' = NoPass
    /\ UNCHANGED <<last_lt, processed_hashes, slept, sink, api, ledger, backlog>>

\* Line 201: the 5 second wait between attempts is over.
WsBackoffDone ==
    /\ pc = "ws_backoff"
    /\ pc' = "ws_connect"
    /\ cycle' = NoPass
    /\ UNCHANGED <<last_lt, processed_hashes, retry_count, slept, sink, api,
                   ledger, backlog>>

\* Lines 178-187: an account_update message triggers check_single_update.
\* (Any other message, and one that is not JSON, changes nothing.)
WsAccountUpdate ==
    /\ pc = "ws_listen"
    /\ \E r \in get_transactions_history(LimitSingle) : ApplyPass("single", r)
    /\ pc' = "ws_checked"
    /\ UNCHANGED <<retry_count, slept, api, ledger, backlog>>

\* Line 178: check_single_update has returned; the async for awaits the next
\* message.
WsAwaitMessage ==
    /\ pc = "ws_checked"
    /\ pc' = "ws_listen"
    /\ cycle' = NoPass
    /\ UNCHANGED <<last_lt, processed_hashes, retry_count, slept, sink, api,
                   ledger, backlog>>

\* Lines 192-204: the connection closes with an error (ConnectionClosed), or
\* a message is JSON but no object (data.get raises).
WsClosedError ==
    /\ pc = "ws_listen"
    /\ WsFailure
    /\ cycle' = NoPass
    /\ UNCHANGED <<last_lt, processed_hashes, slept, sink, api, ledger, backlog>>

\* Line 178: the connection closes cleanly; the async for ends, the while
\* loop of line 147 goes round with retry_count as it was and no wait.
WsClosedOk ==
    /\ pc = "ws_listen"
    /\ pc' = "ws_connect"
    /\ cycle' = NoPass
    /\ UNCHANGED <<last_lt, processed_hashes, retry_count, slept, sink, api,
                   ledger, backlog>>

\* A cancellation that could also land inside check_single_update, as it
\* could if the check awaited between its fetch and its last write.
WsTimeoutMidCheck ==
    /\ pc \in EventPcs
    /\ pc' = "poll_seed"
    /\ cycle' = NoPass
    /\ UNCHANGED <<last_lt, processed_hashes, retry_count, slept, sink, api,
                   ledger, backlog>>

\* Lines 247-252: asyncio.wait_for cancels websocket_monitor at whichever
\* await it stands 10 seconds after it started; polling takes over.
WsTimeout ==
    /\ pc \in EventAwaits
    /\ pc' = "poll_seed"
    /\ cycle' = NoPass
    /\ UNCHANGED <<last_lt, processed_hashes, retry_count, slept, sink, api,
                   ledger, backlog>>

\* Lines 97-101: the baseline installed from a non-empty first fetch.
SeedWatermark(page, wm) == IF page = <<>> THEN wm ELSE page[1].lt
SeedHashes(page, seen) ==
    seen \cup {page[i].hash : i \in {j \in 1..Len(page) : page[j].hash # None}}

\* Lines 94-103: the first fetch of check_new_transactions, outside every
\* try: an exception of the fetch leaves start_monitoring and ends main.
\* websocket_monitor's frame, and its retry_count, are gone by now.
PollSeed ==
    /\ pc = "poll_seed"
    /\ \E r \in get_transactions_history(LimitSeed) :
          /\ pc' = IF r.raised THEN "fatal" ELSE "poll_loop"
          /\ last_lt' = SeedWatermark(r.page, last_lt)
          /\ processed_hashes' = SeedHashes(r.page, processed_hashes)
          /\ cycle' = [NoPass EXCEPT !.op = "seed", !.raised = r.raised,
                                     !.failed = r.failed,
                                     !.last_lt = last_lt, !.err = r.raised]
    /\ retry_count' = 0
    /\ UNCHANGED <<slept, sink, api, ledger, backlog>>

\* Lines 106-140: one iteration of the while True loop.
PollPass(r) ==
    /\ pc = "poll_loop"
    /\ ApplyPass("poll", r)
    /\ slept' = IF (cycle').err THEN SleepError ELSE SleepPoll
    /\ pc' = "poll_sleep"
    /\ UNCHANGED <<retry_count, api, ledger, backlog>>

PollCycle == \E r \in get_transactions_history(LimitPoll) : PollPass(r)

\* The sleep ends and the loop tries the websocket again.
PollWakeReconnect ==
    /\ pc = "poll_sleep"
    /\ pc' = "ws_connect"
    /\ slept' = 0
    /\ cycle' = NoPass
    /\ UNCHANGED <<last_lt, processed_hashes, retry_count, sink, api, ledger,
                   backlog>>

\* Lines 136 / 140: the sleep is over, the while True loop goes round.
PollWake ==
    /\ pc = "poll_sleep"
    /\ pc' = "poll_loop"
    /\ slept' = 0
    /\ cycle' = NoPass
    /\ UNCHANGED <<last_lt, processed_hashes, retry_count, sink, api, ledger,
                   backlog>>

\* The account receives a transaction: a new hash, a higher logical time.
LedgerAppend ==
    /\ api = "ledger"
    /\ Len(ledger) < MaxLT
    /\ ledger' = Append(ledger, Tx(Len(ledger) + 1, Len(ledger) + 1, TRUE))
    /\ cycle' = NoPass
    /\ UNCHANGED <<last_lt, processed_hashes, retry_count, pc, slept, sink, api,
                   backlog>>

Next ==
    \/ StartupCheck
    \/ WsConnectOk
    \/ WsConnectFail
    \/ WsBackoffDone
    \/ WsAccountUpdate
    \/ WsAwaitMessage
    \/ WsClosedError
    \/ WsClosedOk
    \/ WsTimeout
    \/ PollSeed
    \/ PollCycle
    \/ PollWake

LedgerNext == Next \/ LedgerAppend

Spec == Init /\ [][Next]_vars

\* A poll iteration whose fetch succeeds.
PollOk == PollPass(Fetched(Newest(LimitPoll)))

\* What the scheduling guarantees: a started step of start_monitoring
\* completes, wait_for's timeout ends the event mode at one of its awaits, a
\* sleep ends, the while True loop goes round; and, for the claims that
\* suppose it, a fetch of the poll loop succeeds again and again.
Fairness ==
    /\ WF_vars(StartupCheck)
    /\ WF_vars(WsAwaitMessage)
    /\ SF_vars(WsTimeout)
    /\ WF_vars(PollSeed)
    /\ WF_vars(PollCycle)
    /\ WF_vars(PollWake)
    /\ SF_vars(PollOk)

LedgerSpec == LedgerInit /\ [][LedgerNext]_vars /\ Fairness

----------------------------------------------------------------------------
\* What the claims speak of: the passes that filter a page, the hashes of a
\* sequence of records, how often a record occurs in one, the transactions
\* that reached the ledger after the run started, the greatest of a set.
FilterOps == {"single", "poll"}
Hashes(s) == {s[i].hash : i \in 1..Len(s)}
Count(s, tx) == Cardinality({i \in 1..Len(s) : s[i] = tx})
Arrived(h) == h > backlog /\ h <= Len(ledger)
SetMax(S) == CHOOSE x \in S : \A y \in S : y <= x

\* C1: no transaction hash is printed as a new transaction more than once
\* over the whole run, whatever pages the fetches return.
C1_NoDuplicates ==
    \A i, j \in 1..Len(sink) : i # j => sink[i].hash # sink[j].hash

\* A poll pass whose page repeated a hash that an earlier pass had printed,
\* and that printed another record next to it.
C1_Witness ==
    /\ cycle.op = "poll"
    /\ cycle.out # <<>>
    /\ cycle.repeated \cap Hashes(SubSeq(sink, 1, Len(sink) - Len(cycle.out))) # {}

\* C2: under fetches that succeed again and again, every transaction the
\* account receives after monitoring started is eventually printed, in
\* whichever mode the loop was when it arrived.
C2_NoMissingReport ==
    ([]<>(cycle.op = "poll" /\ ~cycle.err))
        => \A h \in 1..MaxLT : [](Arrived(h) => <>(h \in Hashes(sink)))

\* C3: a pass prints, exactly once, every record of its page whose hash was
\* not in the seen-set and whose logical time exceeded the watermark held at
\* the fetch (any record with a hash when the watermark was unset).
C3_NoMissedEntries ==
    cycle.op \in FilterOps =>
        \A tx \in cycle.offered : Count(cycle.out, tx) = 1

\* C4: no transaction that was in the account's history when the run
\* started is ever printed as new.
C4_SeedingSuppressesBacklog ==
    \A i \in 1..Len(sink) : sink[i].hash > backlog

C6_AscendingRun ==
    \A i, j \in 1..Len(sink) :
        (i < j /\ sink[i].lt # None /\ sink[j].lt # None)
            => sink[i].lt <= sink[j].lt

\* C7: last_lt never decreases and, once set, is never unset.
C7_WatermarkMonotonic ==
    [][last_lt # None => (last_lt' # None /\ last_lt' >= last_lt)]_vars

\* C8: after a pass the watermark is the maximum of the watermark before it
\* and the logical times it printed, the seen-set holds every printed hash,
\* and a pass prints nothing whose logical time is at or below the watermark
\* it started from.
C8_WatermarkAfterCycle ==
    cycle.op \in FilterOps =>
        /\ last_lt = SetMax({cycle.last_lt} \cup
                            {cycle.out[i].lt : i \in 1..Len(cycle.out)})
        /\ Hashes(cycle.out) \subseteq processed_hashes
        /\ cycle.last_lt # None =>
              \A i \in 1..Len(cycle.out) :
                  cycle.out[i].lt # None /\ cycle.out[i].lt > cycle.last_lt

\* A poll pass over a page that repeats a seen hash next to a newer record:
\* only the newer one is printed and the watermark moves up to it.
C8_Witness ==
    /\ cycle.op = "poll"
    /\ cycle.last_lt # None
    /\ cycle.repeated # {}
    /\ Len(cycle.out) = 1
    /\ last_lt = cycle.out[1].lt
    /\ last_lt > cycle.last_lt

\* C9: after the third failed connection the loop polls, and goes on making
\* poll passes for ever.
C9_Fallback ==
    [](pc = "poll_seed" /\ retry_count = max_retries => []<>(cycle.op = "poll"))

\* C10: once check_new_transactions has started, the run makes no connection
\* attempt and no event-mode check again.
C10_PollPermanent ==
    [][(pc \in PollPcs \cup {"fatal"}) =>
          (pc' \in PollPcs \cup {"fatal"} /\ (cycle').op # "single")]_vars

\* The poll loop asleep after a pass, the event mode behind it.
C10_Witness ==
    /\ pc = "poll_sleep"
    /\ cycle.op = "poll"
    /\ sink # <<>>

\* C11: no error raised inside a fetch cycle (startup check, event-mode
\* check, poll-mode baseline fetch, poll pass) ends monitoring.
C11_NoErrorFatal ==
    pc # "fatal"

\* C12: when the page of a pass holds a record without its hash or without its
\* logical time (and nothing else is wrong with the page), that record is not
\* printed as new, and every well-formed new transaction of the page is
\* printed in that pass, once, and the watermark reaches its logical time.
C12_MalformedSkipped ==
    (/\ cycle.op \in FilterOps
     /\ cycle.malformed
     /\ ~cycle.raised
     /\ \A tx \in cycle.offered : tx.printable)
    => /\ \A i \in 1..Len(cycle.out) : ~Malformed(cycle.out[i])
       /\ \A tx \in cycle.offered :
             ~Malformed(tx) => Count(cycle.out, tx) = 1 /\ last_lt >= tx.lt

C14_LeavingEventMode ==
    [][(pc \in EventPcs /\ pc' \in PollPcs)
       => (retry_count' = max_retries \/ pc # "ws_listen")]_vars

\* C15: a run makes at most max_retries connection attempts: every connection
\* that ends, cleanly or not, is counted in retry_count, and a new attempt
\* starts only at the first entry or after the backoff wait.
C15_BoundedReconnects ==
    [][/\ ((pc = "ws_listen" /\ pc' \notin {"ws_listen", "ws_checked", "poll_seed"})
            => retry_count' = retry_count + 1)
       /\ ((pc' = "ws_connect" /\ pc # "ws_connect")
            => pc \in {"startup", "ws_backoff"})
       /\ retry_count' <= max_retries]_vars

\* C16: a poll pass whose fetch failed (RequestException, or an answer with
\* ok = false) is followed by the sleep of 10 seconds, not by that of 5.
C16_FetchFailureBacksOff ==
    (cycle.op = "poll" /\ cycle.failed) => slept = SleepError

\* C17: a pass whose page is empty (a failed fetch among them) or holds only
\* hashes of the seen-set prints nothing and leaves last_lt and
\* processed_hashes as they were.
C17_NoOpCycle ==
    [][((cycle').op \in FilterOps /\ (cycle').all_seen)
       => /\ sink' = sink
          /\ last_lt' = last_lt
          /\ processed_hashes' = processed_hashes]_vars

C17_Witness ==
    /\ cycle.op = "poll"
    /\ cycle.all_seen
    /\ cycle.repeated # {}
    /\ last_lt # None
    /\ \E h \in cycle.repeated : h \notin Hashes(sink) /\ LtOf(h) > last_lt

\* C18: two new transactions of one pass that have the same logical time are
\* printed in ascending order of their hash.
C18_TieBreakByHash ==
    cycle.op \in FilterOps
    => \A i, j \in 1..Len(cycle.out) :
          (i < j /\ cycle.out[i].lt = cycle.out[j].lt)
          => cycle.out[i].hash < cycle.out[j].hash

\* C19: processed_hashes is capped: however many distinct hashes a run
\* observes, the set holds fewer than all of them.
C19_BoundedSeenSet ==
    Cardinality(processed_hashes) < Cardinality({tx.hash : tx \in Records} \ {None})

\* C20: no hash is marked seen without being delivered: a step other than the
\* poll-mode baseline adds to processed_hashes only hashes of records it
\* prints, also when its pass ends in an exception.
C20_SeenOnlyDelivered ==
    [][(cycle').op # "seed"
       => (processed_hashes' \ processed_hashes) \subseteq Hashes((cycle').out)]_vars

====
